---------------------------- MODULE Spec2Model ----------------------------
(***************************************************************************)
(* Model of the streaming response normalizers of pages/api/chat.ts:       *)
(* processGenerateStream, processChatStream and the streaming loop that    *)
(* handler runs inline.                                                    *)
(*                                                                         *)
(* Text is a sequence of lexemes.  A lexeme is a short run of characters   *)
(* that the model never cuts ("data:", "{", "value", one space, ...); the  *)
(* string operations of the source (split, startsWith, slice, trim,        *)
(* includes, +) and JSON.parse are modelled on such sequences, and a       *)
(* backend chunk boundary may fall between any two lexemes.                *)
(***************************************************************************)
EXTENDS Naturals, Sequences, FiniteSets

(***************************************************************************)
(* Lexemes                                                                 *)
(***************************************************************************)
NL == "\n"
SP == " "
QT == "\""
StartTag == "<intermediatestep>"
EndTag == "</intermediatestep>"

\* 'data: ' (chat.ts:98): the five characters "data:" and one space.
DataPrefix == <<"data:", SP>>
\* 'intermediate_data: ' (chat.ts:122).
IntermediatePrefix == <<"intermediate_data:", SP>>
\* '[DONE]' (chat.ts:100).
DoneSentinel == <<"[", "DONE", "]">>

\* White space as String.prototype.trim and the JSON grammar see it.
WhiteSpace == {SP, NL}
\* Lexemes that are JSON number literals when they stand outside a string.
NumberLexemes == {"0", "5"}
LiteralLexemes == {"true", "false", "null"}

(***************************************************************************)
(* String operations of the source, on lexeme sequences                    *)
(***************************************************************************)
Drop(s, n) == SubSeq(s, n + 1, Len(s))
Take(s, n) == SubSeq(s, 1, n)

\* String.prototype.startsWith
StartsWith(s, p) == Len(s) >= Len(p) /\ Take(s, Len(p)) = p

\* String.prototype.includes for a one-lexeme needle
Includes(s, x) == \E i \in 1..Len(s) : s[i] = x

\* String.prototype.trim
RECURSIVE TrimLeft(_)
TrimLeft(s) ==
    IF s # <<>> /\ Head(s) \in WhiteSpace THEN TrimLeft(Tail(s)) ELSE s

RECURSIVE TrimRight(_)
TrimRight(s) ==
    IF s # <<>> /\ s[Len(s)] \in WhiteSpace
    THEN TrimRight(Take(s, Len(s) - 1)) ELSE s

Trim(s) == TrimRight(TrimLeft(s))

\* String.prototype.split on a one-lexeme separator: the segments between the
\* separators, in order; always at least one segment.
RECURSIVE SplitFrom(_, _, _, _)
SplitFrom(s, sep, i, cur) ==
    IF i > Len(s) THEN <<cur>>
    ELSE IF s[i] = sep THEN <<cur>> \o SplitFrom(s, sep, i + 1, <<>>)
    ELSE SplitFrom(s, sep, i + 1, Append(cur, s[i]))

SplitNowhere(s, sep) == <<s>>
Split(s, sep) == SplitFrom(s, sep, 1, <<>>)

\* First index >= i at which the sequence p occurs in s, or 0.
RECURSIVE IndexOfFrom(_, _, _)
IndexOfFrom(s, p, i) ==
    IF i + Len(p) - 1 > Len(s) THEN 0
    ELSE IF SubSeq(s, i, i + Len(p) - 1) = p THEN i
    ELSE IndexOfFrom(s, p, i + 1)

\* line.split(sep)[1] for a line that starts with sep: what stands between the
\* first and the second occurrence of sep.
SplitSecond(s, sep) ==
    LET rest == Drop(s, Len(sep))
        j == IndexOfFrom(rest, sep, 1)
    IN IF j = 0 THEN rest ELSE Take(rest, j - 1)

(***************************************************************************)
(* JSON values and JSON.parse                                              *)
(***************************************************************************)
JStr(content) == [t |-> "str", v |-> content]
JNum(lexeme) == [t |-> "num", v |-> <<lexeme>>]
JLit(lexeme) == [t |-> lexeme, v |-> <<>>]
JObj(members) == [t |-> "obj", v |-> members]
JArr(elements) == [t |-> "arr", v |-> elements]
Undefined == [t |-> "undefined", v |-> <<>>]

ParseFail == [ok |-> FALSE, val |-> Undefined, next |-> 0]
ParseOk(val, next) == [ok |-> TRUE, val |-> val, next |-> next]

RECURSIVE SkipWs(_, _)
SkipWs(s, i) ==
    IF i <= Len(s) /\ s[i] \in WhiteSpace THEN SkipWs(s, i + 1) ELSE i

\* Index of the quote that closes the string opened before i, or 0: a raw line
\* break inside a string is a syntax error.
RECURSIVE CloseQuote(_, _)
CloseQuote(s, i) ==
    IF i > Len(s) \/ s[i] = NL THEN 0
    ELSE IF s[i] = QT THEN i
    ELSE CloseQuote(s, i + 1)

ParseString(s, i) ==
    LET j == CloseQuote(s, i + 1)
    IN IF j = 0 THEN ParseFail ELSE ParseOk(JStr(SubSeq(s, i + 1, j - 1)), j + 1)

RECURSIVE ParseValue(_, _)
RECURSIVE ParseMembers(_, _, _)
RECURSIVE ParseElements(_, _, _)

\* members of an object, s[i] being where the next key must start
ParseMembers(s, i, acc) ==
    LET k == SkipWs(s, i)
    IN IF k > Len(s) \/ s[k] # QT THEN ParseFail
       ELSE LET key == ParseString(s, k)
                c == IF key.ok THEN SkipWs(s, key.next) ELSE 0
            IN IF ~key.ok \/ c > Len(s) \/ s[c] # ":" THEN ParseFail
               ELSE LET val == ParseValue(s, c + 1)
                        e == IF val.ok THEN SkipWs(s, val.next) ELSE 0
                    IN IF ~val.ok \/ e > Len(s) THEN ParseFail
                       ELSE LET acc2 == Append(acc, <<key.val.v, val.val>>)
                            IN IF s[e] = "}" THEN ParseOk(JObj(acc2), e + 1)
                               ELSE IF s[e] = "," THEN ParseMembers(s, e + 1, acc2)
                               ELSE ParseFail

\* elements of an array, s[i] being where the next element must start
ParseElements(s, i, acc) ==
    LET val == ParseValue(s, i)
        e == IF val.ok THEN SkipWs(s, val.next) ELSE 0
    IN IF ~val.ok \/ e > Len(s) THEN ParseFail
       ELSE LET acc2 == Append(acc, val.val)
            IN IF s[e] = "]" THEN ParseOk(JArr(acc2), e + 1)
               ELSE IF s[e] = "," THEN ParseElements(s, e + 1, acc2)
               ELSE ParseFail

ParseValue(s, i) ==
    LET j == SkipWs(s, i)
    IN IF j > Len(s) THEN ParseFail
       ELSE IF s[j] = QT THEN ParseString(s, j)
       ELSE IF s[j] \in NumberLexemes THEN ParseOk(JNum(s[j]), j + 1)
       ELSE IF s[j] \in LiteralLexemes THEN ParseOk(JLit(s[j]), j + 1)
       ELSE IF s[j] = "{" THEN
            LET k == SkipWs(s, j + 1)
            IN IF k <= Len(s) /\ s[k] = "}" THEN ParseOk(JObj(<<>>), k + 1)
               ELSE ParseMembers(s, j + 1, <<>>)
       ELSE IF s[j] = "[" THEN
            LET k == SkipWs(s, j + 1)
            IN IF k <= Len(s) /\ s[k] = "]" THEN ParseOk(JArr(<<>>), k + 1)
               ELSE ParseElements(s, j + 1, <<>>)
       ELSE ParseFail

\* A document is one value with nothing but white space behind it.
WholeDocument(s, r) ==
    IF r.ok /\ SkipWs(s, r.next) > Len(s)
    THEN [ok |-> TRUE, val |-> r.val]
    ELSE [ok |-> FALSE, val |-> Undefined]

\* JSON.parse: ok is FALSE where JSON.parse throws a SyntaxError.
JSONParse(s) == WholeDocument(s, ParseValue(s, 1))

(***************************************************************************)
(* JavaScript value operations used by the extractors                      *)
(***************************************************************************)
IsString(v) == v.t = "str"

\* ToBoolean
Truthy(v) ==
    CASE v.t = "str" -> v.v # <<>>
      [] v.t = "num" -> v.v # <<"0">>
      [] v.t \in {"obj", "arr", "true"} -> TRUE
      [] OTHER -> FALSE

\* a || b
Or(a, b) == IF Truthy(a) THEN a ELSE b

IsNullish(v) == v.t \in {"null", "undefined"}

\* v?.key : the value of the last member named key, undefined when there is
\* none or v is not an object.
Get(v, key) ==
    IF v.t = "obj" /\ \E i \in 1..Len(v.v) : v.v[i][1] = <<key>>
    THEN LET i == CHOOSE i \in 1..Len(v.v) :
                      /\ v.v[i][1] = <<key>>
                      /\ \A j \in (i + 1)..Len(v.v) : v.v[j][1] # <<key>>
         IN v.v[i][2]
    ELSE Undefined

\* v?.[0]
First(v) ==
    IF v.t = "arr" /\ v.v # <<>> THEN v.v[1]
    ELSE IF v.t = "str" /\ v.v # <<>> THEN JStr(<<v.v[1]>>)
    ELSE Undefined

\* parsed?.choices?.[0]?.message?.content and ...?.delta?.content
ChoiceContent(parsed, via) == Get(Get(First(Get(parsed, "choices")), via), "content")


\* TextEncoder.encode(v): the text of v as String(v) gives it.
RECURSIVE ToText(_)
RECURSIVE JoinElements(_, _)
JoinElements(elements, i) ==
    IF i > Len(elements) THEN <<>>
    ELSE (IF i > 1 THEN <<",">> ELSE <<>>)
         \o (IF IsNullish(elements[i]) THEN <<>> ELSE ToText(elements[i]))
         \o JoinElements(elements, i + 1)

ToText(v) ==
    CASE v.t = "str" -> v.v
      [] v.t = "num" -> v.v
      [] v.t = "obj" -> <<"[object Object]">>
      [] v.t = "arr" -> JoinElements(v.v, 1)
      [] OTHER -> <<v.t>>

(***************************************************************************)
(* Payload extraction                                                      *)
(***************************************************************************)
\* chat.ts:106-111, the DataEvent branch of processGenerateStream
GenerateStreamContent(parsed) ==
    Or(Or(Or(Or(Get(parsed, "value"), Get(parsed, "output")),
             Get(parsed, "answer")),
          ChoiceContent(parsed, "message")),
       ChoiceContent(parsed, "delta"))

\* chat.ts:150-154, the end-of-stream fallback of processGenerateStream
FallbackValue(parsed) ==
    Or(Or(Or(Get(parsed, "value"), Get(parsed, "output")),
          Get(parsed, "answer")),
       ChoiceContent(parsed, "message"))

\* chat.ts:195-197, the DataEvent branch of processChatStream
ChatStreamContent(parsed) ==
    Or(ChoiceContent(parsed, "message"), ChoiceContent(parsed, "delta"))

\* chat.ts:395, the streaming loop of handler
InlineContent(data) == Or(ChoiceContent(data, "delta"), JStr(<<>>))

(***************************************************************************)
(* Single-shot extraction, chat.ts:40-74 and 421-422                       *)
(***************************************************************************)
\* JSON.stringify(v), without the undefined case
RECURSIVE JSONStringify(_)
RECURSIVE StringifyMembers(_, _)
RECURSIVE StringifyElements(_, _)
StringifyMembers(members, i) ==
    IF i > Len(members) THEN <<>>
    ELSE (IF i > 1 THEN <<",">> ELSE <<>>)
         \o <<QT>> \o members[i][1] \o <<QT, ":">> \o JSONStringify(members[i][2])
         \o StringifyMembers(members, i + 1)

StringifyElements(elements, i) ==
    IF i > Len(elements) THEN <<>>
    ELSE (IF i > 1 THEN <<",">> ELSE <<>>)
         \o JSONStringify(elements[i])
         \o StringifyElements(elements, i + 1)

\* a line break inside a string is written as the two characters \n
EscapeLineBreaks(text) ==
    [i \in 1..Len(text) |-> IF text[i] = NL THEN "\\n" ELSE text[i]]

JSONStringify(v) ==
    CASE v.t = "str" -> <<QT>> \o EscapeLineBreaks(v.v) \o <<QT>>
      [] v.t = "num" -> v.v
      [] v.t = "obj" -> <<"{">> \o StringifyMembers(v.v, 1) \o <<"}">>
      [] v.t = "arr" -> <<"[">> \o StringifyElements(v.v, 1) \o <<"]">>
      [] OTHER -> <<v.t>>

\* The body of new Response(typeof v === 'string' ? v : JSON.stringify(v)):
\* JSON.stringify(undefined) is undefined, and the body is then empty.
ResponseText(v) ==
    IF IsString(v) THEN v.v
    ELSE IF v.t = "undefined" THEN <<>>
    ELSE JSONStringify(v)

\* chat.ts:48-50 and 65-67
ChoicesIfArray(parsed) ==
    IF Get(parsed, "choices").t = "arr"
    THEN Get(Get(First(Get(parsed, "choices")), "message"), "content")
    ELSE JLit("null")

\* chat.ts:44-50, the order of processGenerate with output in front
GenerateValueOutputFirst(parsed) ==
    Or(Or(Or(Get(parsed, "output"), Get(parsed, "value")), Get(parsed, "answer")),
       ChoicesIfArray(parsed))
GenerateValue(parsed) ==
    Or(Or(Or(Get(parsed, "value"), Get(parsed, "output")), Get(parsed, "answer")),
       ChoicesIfArray(parsed))

\* chat.ts:61-69, data being the raw text
ChatValue(parsed, data) ==
    Or(Or(Or(Or(Or(Get(parsed, "output"), Get(parsed, "answer")),
                Get(parsed, "value")),
             ChoicesIfArray(parsed)),
          parsed),
       JStr(data))

\* chat.ts:40-55, p being what JSON.parse made of data
ProcessGenerate(data, p) ==
    IF p.ok THEN ResponseText(GenerateValue(p.val)) ELSE data

\* chat.ts:57-74
ProcessChat(data, p) ==
    IF p.ok THEN ResponseText(ChatValue(p.val, data)) ELSE data

\* chat.ts:100 and 189: data.trim() === '[DONE]'
IsTerminatorNoTrim(data) == data = DoneSentinel
IsTerminator(data) == Trim(data) = DoneSentinel

(***************************************************************************)
(* Intermediate-step encoder, chat.ts:126-139 and 209-222                  *)
(***************************************************************************)
\* the record with content read from under the payload's content member
IntermediateMessageNested(payload, index) ==
    [ id |-> Or(Get(payload, "id"), JStr(<<>>)),
      status |-> Or(Get(payload, "status"), JStr(<<"in_progress">>)),
      error |-> Or(Get(payload, "error"), JStr(<<>>)),
      type |-> JStr(<<"system_intermediate">>),
      parent_id |-> Or(Get(payload, "parent_id"), JStr(<<"default">>)),
      intermediate_parent_id |->
          Or(Get(payload, "intermediate_parent_id"), JStr(<<"default">>)),
      content |-> [ name |-> Or(Get(Get(payload, "content"), "name"), JStr(<<"Step">>)),
                    payload |-> Or(Get(Get(payload, "content"), "payload"),
                                   JStr(<<"No details">>)) ],
      time_stamp |-> Or(Get(payload, "time_stamp"), JStr(<<"default">>)),
      index |-> index ]

IntermediateMessage(payload, index) ==
    [ id |-> Or(Get(payload, "id"), JStr(<<>>)),
      status |-> Or(Get(payload, "status"), JStr(<<"in_progress">>)),
      error |-> Or(Get(payload, "error"), JStr(<<>>)),
      type |-> JStr(<<"system_intermediate">>),
      parent_id |-> Or(Get(payload, "parent_id"), JStr(<<"default">>)),
      intermediate_parent_id |->
          Or(Get(payload, "intermediate_parent_id"), JStr(<<"default">>)),
      content |-> [ name |-> Or(Get(payload, "name"), JStr(<<"Step">>)),
                    payload |-> Or(Get(payload, "payload"), JStr(<<"No details">>)) ],
      time_stamp |-> Or(Get(payload, "time_stamp"), JStr(<<"default">>)),
      index |-> index ]

\* The counter after one intermediate_data line: counter++ stands behind
\* JSON.parse inside the try block, so a payload that does not parse leaves it.
CounterAfterAlways(counter, parsedOk) == counter + 1
CounterAfter(counter, parsedOk) == IF parsedOk THEN counter + 1 ELSE counter

(***************************************************************************)
(* The output stream's controller (ReadableStreamDefaultController)        *)
(*                                                                         *)
(* A frame f holds what one pass over the lines of a chunk reads and       *)
(* writes: the sequence counter, the controller's queue and flags, and the *)
(* history of what was enqueued and dispatched.                            *)
(***************************************************************************)
\* An output chunk.  via names the branch that enqueued it, src is the offset
\* in the backend body of the line it comes from; both are history only.
Chunk(via, bytes, rec, src) == [via |-> via, bytes |-> bytes, rec |-> rec, src |-> src]

CanCloseOrEnqueue(f) == ~f.closeRequested /\ f.streamState = "readable"

\* controller.enqueue(chunk) on a controller that accepts it
EnqueueFront(f, chunk) ==
    [f EXCEPT !.queue = <<chunk>> \o @, !.emitted = <<chunk>> \o @]
Enqueue(f, chunk) ==
    [f EXCEPT !.queue = Append(@, chunk), !.emitted = Append(@, chunk)]

\* controller.enqueue(chunk) inside try { } catch {}: the TypeError of a
\* controller that is closed is swallowed.
TryEnqueue(f, chunk) ==
    IF CanCloseOrEnqueue(f) THEN Enqueue(f, chunk)
    ELSE [f EXCEPT !.rejectedCalls = @ + 1]

\* controller.close() on a controller that accepts it: the stream is closed
\* once the queue has been read empty.
Close(f) ==
    [f EXCEPT !.closeRequested = TRUE,
              !.closeCalls = @ + 1,
              !.streamState = IF f.queue = <<>> THEN "closed" ELSE @]

\* controller.close() on a controller that is closed: it throws a TypeError.
CloseRejected(f) ==
    [f EXCEPT !.closeCalls = @ + 1, !.rejectedCalls = @ + 1]

\* controller.error(e), which the stream runs when start() rejects.
ControllerError(f) ==
    IF f.streamState = "readable"
    THEN [f EXCEPT !.queue = <<>>, !.streamState = "errored"]
    ELSE f

Step(f, ctl) == [f |-> f, ctl |-> ctl]

\* controller.close(); return;  (chat.ts:101-102, 190-191)
CloseAndReturn(f) ==
    IF CanCloseOrEnqueue(f) THEN Step(Close(f), "return")
    ELSE Step(CloseRejected(f), "throw")

\* chat.ts:123-142 and 206-225: the try block of an intermediate_data line,
\* p being what JSON.parse made of its payload.
EncodeStep(f, p, off) ==
    IF p.ok
    THEN Step(TryEnqueue([f EXCEPT !.counter = CounterAfter(@, TRUE)],
                         Chunk("step", <<>>, <<IntermediateMessage(p.val, f.counter)>>, off)),
              "next")
    ELSE Step([f EXCEPT !.counter = CounterAfter(@, FALSE)], "next")

(***************************************************************************)
(* One complete line in processGenerateStream, chat.ts:98-143              *)
(***************************************************************************)
\* chat.ts:104-115, p being what JSON.parse made of the payload
GenerateData(f, p, content, off) ==
    IF p.ok /\ Truthy(content) /\ IsString(content)
    THEN Step(TryEnqueue(f, Chunk("data", content.v, <<>>, off)), "next")
    ELSE Step(f, "next")

GenerateParsed(f, p, off) == GenerateData(f, p, GenerateStreamContent(p.val), off)

GenerateLine(f, line, off, enableSteps) ==
    IF StartsWith(line, DataPrefix) THEN
         \* data = line.slice(5): the space behind "data:" stays
         IF IsTerminator(Drop(line, 1)) THEN CloseAndReturn(f)
         ELSE GenerateParsed(f, JSONParse(Drop(line, 1)), off)
    ELSE IF Includes(line, StartTag) /\ Includes(line, EndTag) /\ enableSteps THEN
         IF CanCloseOrEnqueue(f)
         THEN Step(Enqueue(f, Chunk("tagged", line, <<>>, off)), "next")
         ELSE Step([f EXCEPT !.rejectedCalls = @ + 1], "throw")
    ELSE IF StartsWith(line, IntermediatePrefix) THEN
         EncodeStep(f, JSONParse(SplitSecond(line, IntermediatePrefix)), off)
    ELSE Step(f, "next")

(***************************************************************************)
(* One complete line in processChatStream, chat.ts:187-226                 *)
(***************************************************************************)
\* chat.ts:193-201 and 393-401: parsed.choices throws on null inside the try
\* block, and encode() takes the text of whatever content is.
ForwardContent(f, p, content, off) ==
    IF p.ok /\ p.val.t # "null" /\ Truthy(content)
    THEN Step(TryEnqueue(f, Chunk("data", ToText(content), <<>>, off)), "next")
    ELSE Step(f, "next")

ChatParsed(f, p, off) == ForwardContent(f, p, ChatStreamContent(p.val), off)

ChatLine(f, line, off, enableSteps) ==
    IF StartsWith(line, DataPrefix) THEN
         IF IsTerminator(Drop(line, 1)) THEN CloseAndReturn(f)
         ELSE ChatParsed(f, JSONParse(Drop(line, 1)), off)
    ELSE IF StartsWith(line, IntermediatePrefix) /\ enableSteps THEN
         EncodeStep(f, JSONParse(SplitSecond(line, IntermediatePrefix)), off)
    ELSE Step(f, "next")

(***************************************************************************)
(* One segment of a chunk in handler's streaming loop, chat.ts:392-402     *)
(***************************************************************************)
InlineParsed(f, p, off) == ForwardContent(f, p, InlineContent(p.val), off)

InlineLine(f, line, off, enableSteps) ==
    IF StartsWith(line, DataPrefix)
    THEN InlineParsed(f, JSONParse(Drop(line, 2)), off)     \* line.slice(6)
    ELSE Step(f, "next")

\* The classifier of each normalizer; the two with a Line Buffer record the
\* line in the history.
Dispatch(k, f, line, off, enableSteps) ==
    CASE k = "generate" ->
            GenerateLine([f EXCEPT !.dispatched = Append(@, line)], line, off, enableSteps)
      [] k = "chat" ->
            ChatLine([f EXCEPT !.dispatched = Append(@, line)], line, off, enableSteps)
      [] OTHER -> InlineLine(f, line, off, enableSteps)

\* for (const line of lines) { ... }: the lines in order, until one returns
\* or throws; off is the offset of lines[i] in the backend body.
RECURSIVE ForEachLine(_, _, _, _, _, _)
NextLine(k, r, lines, i, off, enableSteps) ==
    IF r.ctl = "next" THEN ForEachLine(k, r.f, lines, i, off, enableSteps) ELSE r

ForEachLine(k, f, lines, i, off, enableSteps) ==
    IF i > Len(lines) THEN Step(f, "next")
    ELSE NextLine(k, Dispatch(k, f, lines[i], off, enableSteps),
                  lines, i + 1, off + Len(lines[i]) + 1, enableSteps)

(***************************************************************************)
(* Line Buffer, chat.ts:91-95 and 181-184                                  *)
(***************************************************************************)
\* lines.pop() || ''
LeftoverDropped(segments) == <<>>
Leftover(segments) == segments[Len(segments)]

\* the segments that remain in lines after lines.pop()
CompleteLinesNoPop(segments) == segments
CompleteLines(segments) == Take(segments, Len(segments) - 1)

\* streamContent += chunk (chat.ts:92)
AccumulatePayloads(streamContent, chunk) ==
    streamContent \o (IF StartsWith(chunk, DataPrefix) THEN Drop(chunk, 2) ELSE chunk)
Accumulate(streamContent, chunk) == streamContent \o chunk

(***************************************************************************)
(* Backend bodies                                                          *)
(***************************************************************************)
Quoted(x) == <<QT, x, QT>>
Member(key, value) == Quoted(key) \o <<":">> \o value
Object1(key, value) == <<"{">> \o Member(key, value) \o <<"}">>
Object2(k1, v1, k2, v2) ==
    <<"{">> \o Member(k1, v1) \o <<",">> \o Member(k2, v2) \o <<"}">>
\* {"choices":[{"<via>":{"content":"<x>"}}]}
Choices(via, x) ==
    Object1("choices", <<"[">> \o Object1(via, Object1("content", Quoted(x))) \o <<"]">>)

DataLine(payload) == DataPrefix \o payload \o <<NL>>
StepLine(payload) == IntermediatePrefix \o payload \o <<NL>>
DoneLine == DataLine(DoneSentinel)
\* data: {not valid json
BadDataLine == DataLine(<<"{", "not", SP, "valid", SP, "json">>)
BadStepLine == StepLine(<<"{", "oops">>)
SearchingStep == StepLine(Object2("id", Quoted("1"), "name", Quoted("Searching")))
TaggedLine == <<StartTag>> \o Object1("index", <<"0">>) \o <<EndTag, NL>>

Bodies ==
    { <<>>,
      DataLine(Object1("value", Quoted("x"))),
      \* no newline behind the last line
      DataPrefix \o Object1("value", Quoted("x")),
      DataLine(Object1("value", Quoted("x"))) \o BadDataLine
          \o DataLine(Object1("value", Quoted("y"))),
      DataLine(Object2("value", Quoted("a"), "output", Quoted("b")))
          \o DataLine(Object2("output", Quoted("b"), "answer", Quoted("c"))),
      DataLine(Object2("value", <<"5">>, "answer", Quoted("b")))
          \o DataLine(Object2("value", Quoted(""), "answer", Quoted("c"))),
      DataLine(Object1("value", Quoted("Hi"))) \o SearchingStep \o DoneLine,
      DataLine(Object1("answer", Quoted("x"))) \o DoneLine
          \o DataLine(Object1("answer", Quoted("y"))) \o <<"data:">>,
      DataLine(<<SP>> \o DoneSentinel \o <<SP>>) \o SearchingStep,
      SearchingStep \o BadStepLine \o StepLine(<<"{", "}">>),
      StepLine(<<"{", "}">>) \o TaggedLine \o SearchingStep,
      \* telemetry with a nested content member, with empty fields, and null
      StepLine(Object2("status", Quoted("done"),
                       "content", Object1("name", Quoted("Nested"))))
          \o StepLine(Object2("status", Quoted(""), "payload", <<"0">>))
          \o StepLine(<<"null">>),
      StepLine(Object2("payload", Object1("query", Quoted("x")),
                       "time_stamp", <<"5">>))
          \o StepLine(Object2("parent_id", Quoted("p"), "error", Quoted("e"))),
      TaggedLine \o DataLine(Object1("output", Quoted("x"))) \o StepLine(<<"{", "}">>),
      \* telemetry that parses and holds both tags inside a string
      StepLine(Object1("payload", <<QT, StartTag, "x", EndTag, QT>>)) \o SearchingStep,
      \* a line with the intermediate prefix that carries both tags
      StepLine(<<StartTag, "x", EndTag>>) \o SearchingStep,
      DataLine(Choices("message", "x")) \o DataLine(Choices("delta", "y")),
      DataLine(Choices("delta", "x")) \o <<NL>> \o DataLine(Choices("delta", "y"))
          \o DoneLine,
      DataLine(Choices("delta", "x")) \o SearchingStep
          \o DataLine(Choices("message", "y")),
      \* one JSON document instead of event lines
      Object1("answer", Quoted("hello")),
      Object1("answer", <<QT, SP, "hello", SP, QT>>) \o <<NL>>,
      <<"{", NL, SP>> \o Member("output", Quoted("")) \o <<",", NL, SP>>
          \o Member("answer", Quoted("hello")) \o <<NL, "}", NL>>,
      Object2("value", <<"5">>, "answer", Quoted("hello")) \o <<NL>>,
      Choices("message", "d") \o <<NL>>,
      Choices("delta", "d") \o <<NL>>,
      Object1("answer", <<QT, StartTag, "a", EndTag, QT>>) \o <<NL>>,
      Object1("detail", Quoted("Not Found")) \o <<NL>> }

Kinds == {"generate", "chat", "inline"}

\* Largest number of lexemes one backend read delivers.
MaxChunk == 30

Min(a, b) == IF a < b THEN a ELSE b

(***************************************************************************)
(* State                                                                   *)
(***************************************************************************)
VARIABLES
    kind,            \* which normalizer runs
    body,            \* the backend response body
    hasReader,       \* response.body is not null
    enableSteps,     \* additionalProps.enableIntermediateSteps
    pc,              \* "start", "reading" (a backend read is pending), "done"
    pos,             \* lexemes of body the reads have delivered
    buffer, streamContent, finalAnswerSent, counter,
    queue, closeRequested, streamState,    \* the output stream
    startPromise,    \* "pending", "resolved", "rejected"
    exitPath,        \* "none", "terminator", "end", "error", "noreader", "thrown"
    releaseCalls, closeCalls, rejectedCalls,
    emitted,         \* history: every chunk enqueued
    extracted,       \* history: every complete line the Line Buffer returned
    dispatched,      \* history: every such line handed to the classifier
    delivered,       \* history: every chunk the client has read
    extraction,      \* one call of a single-shot extractor
    http,            \* one request in handler
    cancelledAt,     \* <<[pos, pc]>> once the client has cancelled the stream
    peer             \* a second invocation that runs beside this one

input == <<kind, body, hasReader, enableSteps>>
local == <<pc, pos, buffer, streamContent, finalAnswerSent, counter>>
stream == <<queue, closeRequested, streamState, startPromise>>
history == <<exitPath, releaseCalls, closeCalls, rejectedCalls,
             emitted, extracted, dispatched>>
others == <<extraction, http, cancelledAt, peer>>
vars == <<input, local, stream, history, delivered, others>>

Frame ==
    [ counter |-> counter, queue |-> queue, closeRequested |-> closeRequested,
      streamState |-> streamState, closeCalls |-> closeCalls,
      rejectedCalls |-> rejectedCalls, emitted |-> emitted,
      dispatched |-> dispatched ]

Init ==
    /\ kind \in Kinds
    /\ body \in Bodies
    /\ hasReader \in BOOLEAN
    /\ enableSteps \in BOOLEAN
    /\ pc = "start"
    /\ pos = 0
    /\ buffer = <<>>
    /\ streamContent = <<>>
    /\ finalAnswerSent = FALSE
    /\ counter = 0
    /\ queue = <<>>
    /\ closeRequested = FALSE
    /\ streamState = "readable"
    /\ startPromise = "pending"
    /\ exitPath = "none"
    /\ releaseCalls = 0
    /\ closeCalls = 0
    /\ rejectedCalls = 0
    /\ emitted = <<>>
    /\ extracted = <<>>
    /\ dispatched = <<>>
    /\ delivered = <<>>
    /\ extraction = <<>>
    /\ http = <<>>
    /\ cancelledAt = <<>>
    /\ peer = <<>>

(***************************************************************************)
(* finally blocks                                                          *)
(***************************************************************************)
\* chat.ts:155-158
FallbackEmit(f, p, value, sent) ==
    IF ~sent /\ p.ok /\ Truthy(value) /\ IsString(value)
    THEN IF CanCloseOrEnqueue(f)
         THEN [f |-> Enqueue(f, Chunk("fallback", Trim(value.v), <<>>, 0)),
               sent |-> TRUE]
         ELSE [f |-> [f EXCEPT !.rejectedCalls = @ + 1], sent |-> sent]
    ELSE [f |-> f, sent |-> sent]

FallbackParsed(f, p, sent) == FallbackEmit(f, p, FallbackValue(p.val), sent)

\* chat.ts:147-160: the end-of-stream fallback of processGenerateStream
GenerateFallback(f, content, sent) == FallbackParsed(f, JSONParse(content), sent)

\* chat.ts:161-162, 230-231 and 406-407: controller.close() throws on a
\* closed controller, and releaseLock() stands behind it.  Then the stream's
\* reaction to how start() ended: a rejection errors a readable stream.
CloseAndRelease(fb, thrown, reader) ==
    IF CanCloseOrEnqueue(fb.f)
    THEN [ f |-> IF thrown THEN ControllerError(Close(fb.f)) ELSE Close(fb.f),
           sent |-> fb.sent,
           released |-> IF reader THEN 1 ELSE 0,
           rejected |-> thrown ]
    ELSE [ f |-> ControllerError(CloseRejected(fb.f)),
           sent |-> fb.sent,
           released |-> 0,
           rejected |-> TRUE ]

\* chat.ts:146-163, 229-232 and 405-408: the finally block, entered with an
\* exception pending (thrown) or not.
Finally(k, f, content, sent, thrown, reader) ==
    CloseAndRelease(IF k = "generate" THEN GenerateFallback(f, content, sent)
                    ELSE [f |-> f, sent |-> sent],
                    thrown, reader)

\* The variables after start() has run to its end, r being what the finally
\* block left.
Finished(r, exit) ==
    /\ pc' = "done"
    /\ finalAnswerSent' = r.sent
    /\ counter' = r.f.counter
    /\ queue' = r.f.queue
    /\ closeRequested' = r.f.closeRequested
    /\ streamState' = r.f.streamState
    /\ closeCalls' = r.f.closeCalls
    /\ rejectedCalls' = r.f.rejectedCalls
    /\ emitted' = r.f.emitted
    /\ dispatched' = r.f.dispatched
    /\ releaseCalls' = releaseCalls + r.released
    /\ startPromise' = IF r.rejected THEN "rejected" ELSE "resolved"
    /\ exitPath' = exit

Finish(f, content, thrown, exit) ==
    Finished(Finally(kind, f, content, finalAnswerSent, thrown, hasReader), exit)

\* The variables after the lines of one chunk have been dispatched, r being
\* what the for loop left: the next read, or the end of start().
AfterLines(r, content) ==
    IF r.ctl = "next"
    THEN /\ counter' = r.f.counter
         /\ queue' = r.f.queue
         /\ emitted' = r.f.emitted
         /\ dispatched' = r.f.dispatched
         /\ rejectedCalls' = r.f.rejectedCalls
         /\ UNCHANGED <<pc, finalAnswerSent, closeRequested, streamState,
                        startPromise, exitPath, releaseCalls, closeCalls>>
    ELSE Finish(r.f, content, r.ctl = "throw",
                IF r.ctl = "throw" THEN "thrown" ELSE "terminator")

\* The loop body up to the for loop (chat.ts:90-95, 180-184, 388-389):
\* segments is what split returned.
Received(n, segments, content) ==
    /\ pos' = pos + n
    /\ buffer' = IF kind = "inline" THEN buffer ELSE Leftover(segments)
    /\ streamContent' = content
    /\ extracted' = IF kind = "inline" THEN extracted
                    ELSE extracted \o CompleteLines(segments)
    /\ AfterLines(ForEachLine(kind, Frame,
                              IF kind = "inline" THEN segments
                              ELSE CompleteLines(segments),
                              1, pos - Len(buffer), enableSteps),
                  content)

(***************************************************************************)
(* Actions                                                                 *)
(***************************************************************************)
\* new ReadableStream({ start }): start() runs up to its first await.
\* Without a body, reader is undefined: reader!.read() throws in the two
\* normalizers (chat.ts:87, 177) and the inline loop returns (chat.ts:380).
Start ==
    /\ pc = "start"
    /\ IF hasReader
       THEN /\ pc' = "reading"
            /\ UNCHANGED <<finalAnswerSent, counter, stream, exitPath, releaseCalls,
                           closeCalls, rejectedCalls, emitted, dispatched>>
       ELSE IF kind = "inline"
       THEN /\ pc' = "done"
            /\ startPromise' = "resolved"
            /\ exitPath' = "noreader"
            /\ UNCHANGED <<finalAnswerSent, counter, queue, closeRequested,
                           streamState, releaseCalls, closeCalls,
                           rejectedCalls, emitted, dispatched>>
       ELSE Finish(Frame, streamContent, TRUE, "noreader")
    /\ UNCHANGED <<input, pos, buffer, streamContent, extracted, delivered, others>>

\* The pending read resolves with the next n lexemes of the body, and the
\* loop body runs up to the next read or to the end of start().
ReadChunk(n) ==
    /\ pc = "reading"
    /\ n \in 1..Min(MaxChunk, Len(body) - pos)
    /\ Received(n,
                Split(IF kind = "inline" THEN SubSeq(body, pos + 1, pos + n)
                      ELSE buffer \o SubSeq(body, pos + 1, pos + n), NL),
                IF kind = "generate"
                THEN Accumulate(streamContent, SubSeq(body, pos + 1, pos + n))
                ELSE streamContent)
    /\ UNCHANGED <<input, delivered, others>>

\* The pending read resolves with done: the body has ended.
ReadDone ==
    /\ pc = "reading"
    /\ pos = Len(body)
    /\ Finish(Frame, streamContent, FALSE, "end")
    /\ UNCHANGED <<input, pos, buffer, streamContent, extracted, delivered, others>>

\* The pending read rejects: the backend connection failed.
ReadThrows ==
    /\ pc = "reading"
    /\ Finish(Frame, streamContent, TRUE, "error")
    /\ UNCHANGED <<input, pos, buffer, streamContent, extracted, delivered, others>>

\* The client reads one chunk of the output stream.
ClientRead ==
    /\ streamState = "readable"
    /\ queue # <<>>
    /\ delivered' = Append(delivered, Head(queue))
    /\ queue' = Tail(queue)
    /\ streamState' = IF closeRequested /\ Tail(queue) = <<>> THEN "closed"
                      ELSE streamState
    /\ UNCHANGED <<input, local, closeRequested, startPromise, history, others>>

Next ==
    \/ Start
    \/ \E n \in 1..MaxChunk : ReadChunk(n)
    \/ ReadDone
    \/ ReadThrows
    \/ ClientRead

Spec == Init /\ [][Next]_vars

(***************************************************************************)
(* Reference definitions for the properties: the backend body seen as a    *)
(* whole, without the Line Buffer.                                         *)
(***************************************************************************)
\* what the reads have delivered so far
ReceivedText == Take(body, pos)

\* positions of the newlines of s
Newlines(s) == {i \in 1..Len(s) : s[i] = NL}

\* the line of s that ends with the newline at position e
LineEndingAt(s, e) ==
    LET before == {j \in Newlines(s) : j < e}
        start == IF before = {} THEN 1
                 ELSE 1 + CHOOSE j \in before : \A m \in before : m <= j
    IN SubSeq(s, start, e - 1)

\* the k-th newline of s
NewlineNo(s, k) ==
    CHOOSE e \in Newlines(s) : Cardinality({j \in Newlines(s) : j <= e}) = k

\* the newline-terminated lines of s, in order
TerminatedLines(s) ==
    [k \in 1..Cardinality(Newlines(s)) |-> LineEndingAt(s, NewlineNo(s, k))]

\* the line of s that starts behind offset off (up to the next newline or
\* the end of s)
LineFrom(s, off) ==
    LET ends == {j \in Newlines(s) : j > off}
    IN IF ends = {} THEN Drop(s, off)
       ELSE SubSeq(s, off + 1, (CHOOSE j \in ends : \A m \in ends : j <= m) - 1)

\* a line that is `data: ` and then, trimmed, [DONE]
IsTerminatorLine(line) ==
    StartsWith(line, DataPrefix) /\ Trim(Drop(line, Len(DataPrefix))) = DoneSentinel

\* offsets in s of the terminated lines that are terminators
TerminatorOffsets(s) ==
    {e - Len(LineEndingAt(s, e)) - 1 : e \in {j \in Newlines(s) : IsTerminatorLine(LineEndingAt(s, j))}}

SeenTerminator == TerminatorOffsets(ReceivedText) # {}

FirstTerminatorOffset ==
    CHOOSE o \in TerminatorOffsets(ReceivedText) :
        \A m \in TerminatorOffsets(ReceivedText) : o <= m

\* the terminated lines of s up to and with its first terminator line
RECURSIVE UpToTerminator(_, _)
UpToTerminator(lines, i) ==
    IF i > Len(lines) THEN <<>>
    ELSE IF IsTerminatorLine(lines[i]) THEN <<lines[i]>>
    ELSE <<lines[i]>> \o UpToTerminator(lines, i + 1)

\* each line followed by a newline
RECURSIVE JoinLines(_, _)
JoinLines(lines, i) ==
    IF i > Len(lines) THEN <<>>
    ELSE lines[i] \o <<NL>> \o JoinLines(lines, i + 1)

Buffered == kind \in {"generate", "chat"}

ChunksVia(via) == {i \in 1..Len(emitted) : emitted[i].via = via}

(***************************************************************************)
(* Properties                                                              *)
(***************************************************************************)

\* C1: in every run of processGenerateStream and processChatStream that has a
\* backend reader, releaseLock has been invoked exactly once when the run has
\* ended, and never more than once before.
C1_ReleasedExactlyOnce ==
    (Buffered /\ hasReader) =>
        /\ releaseCalls <= 1
        /\ pc = "done" => releaseCalls = 1

C3_NoFallbackAfterData ==
    (kind = "generate" /\ ChunksVia("data") # {}) => ChunksVia("fallback") = {}

\* C3 witness: the body ended naturally, so the fallback ran (finalAnswerSent
\* was still false), after answer text had been sent.
C3_Witness ==
    /\ kind = "generate" /\ exitPath = "end"
    /\ ChunksVia("data") # {}
    /\ ~finalAnswerSent

\* the four fields the fallback looks at, in its order of preference
FallbackCandidates(parsed) ==
    << Get(parsed, "value"), Get(parsed, "output"), Get(parsed, "answer"),
       ChoiceContent(parsed, "message") >>

NonEmptyStrings(candidates) ==
    {i \in 1..Len(candidates) : IsString(candidates[i]) /\ candidates[i].v # <<>>}

FirstOf(indexes) == CHOOSE i \in indexes : \A j \in indexes : i <= j

\* C4: in processGenerateStream, when the body has ended naturally and no
\* DataEvent produced text: if the whole body parses as one JSON document and
\* one of value, output, answer, choices[0].message.content is a non-empty
\* string, the first such string, trimmed, is the one chunk the fallback
\* enqueues, and it is the last chunk of the stream; otherwise the fallback
\* enqueues nothing.
C4_FallbackRecovers ==
    (kind = "generate" /\ exitPath = "end" /\ ChunksVia("data") = {}) =>
        IF JSONParse(body).ok
           /\ NonEmptyStrings(FallbackCandidates(JSONParse(body).val)) # {}
        THEN /\ Cardinality(ChunksVia("fallback")) = 1
             /\ emitted[Len(emitted)].via = "fallback"
             /\ emitted[Len(emitted)].bytes =
                    Trim(FallbackCandidates(JSONParse(body).val)
                            [FirstOf(NonEmptyStrings(
                                FallbackCandidates(JSONParse(body).val)))].v)
        ELSE ChunksVia("fallback") = {}

\* C5: in processGenerateStream the lines dispatched so far are the
\* newline-terminated lines of the text received so far, in order, up to and
\* with the first terminator line: a function of the text alone, whatever
\* the chunks were, and no line without its newline.
C5_LinesIndependentOfChunking ==
    kind = "generate" =>
        dispatched = UpToTerminator(TerminatedLines(ReceivedText), 1)

\* C5 witness: lines have been dispatched and the start of the next line is
\* held back in the buffer while a read is pending.
C5_Witness ==
    /\ kind = "generate" /\ pc = "reading"
    /\ Len(dispatched) >= 2
    /\ buffer # <<>>

EmptyFrame ==
    [ counter |-> 0, queue |-> <<>>, closeRequested |-> FALSE,
      streamState |-> "readable", closeCalls |-> 0, rejectedCalls |-> 0,
      emitted |-> <<>>, dispatched |-> <<>> ]

BytesOf(chunks) == [i \in 1..Len(chunks) |-> chunks[i].bytes]

\* C6: the streaming loop of handler has enqueued, when the body has ended,
\* the chunks it enqueues when the whole body arrives as one chunk.
C6_InlineIndependentOfChunking ==
    (kind = "inline" /\ exitPath = "end") =>
        BytesOf(emitted) =
            BytesOf(ForEachLine("inline", EmptyFrame, Split(body, NL), 1, 0,
                                enableSteps).f.emitted)

\* C7: in processGenerateStream, as long as no terminator line has been
\* received, the complete lines extracted so far, each with its newline,
\* followed by the leftover buffer, are the text received so far.
C7_NoLossNoDuplication ==
    (kind = "generate" /\ ~SeenTerminator) =>
        JoinLines(extracted, 1) \o buffer = ReceivedText

\* C7 witness: several lines, an empty one among them, have been extracted
\* and a partial line is in the buffer.
C7_Witness ==
    /\ kind = "generate" /\ pc = "reading"
    /\ Len(extracted) >= 2
    /\ \E i \in 1..Len(extracted) : extracted[i] = <<>>
    /\ buffer # <<>>

\* C8: the chunks enqueued from lines stand in the order of their lines in
\* the body, each line giving at most one chunk of the kind its prefix
\* calls for, and a fallback chunk stands last.
C8_OrderPreserved ==
    \A i \in 1..Len(emitted) :
        /\ emitted[i].via = "fallback" => i = Len(emitted)
        /\ emitted[i].via = "data" =>
               StartsWith(LineFrom(body, emitted[i].src), DataPrefix)
        /\ emitted[i].via = "step" =>
               StartsWith(LineFrom(body, emitted[i].src), IntermediatePrefix)
        /\ emitted[i].via = "tagged" =>
               emitted[i].bytes = LineFrom(body, emitted[i].src)
        /\ \A j \in (i + 1)..Len(emitted) :
               emitted[j].via # "fallback" => emitted[i].src < emitted[j].src

\* C8 witness: answer text, a marker and answer text again, interleaved.
C8_Witness ==
    /\ Len(emitted) >= 3
    /\ emitted[1].via = "data" /\ emitted[2].via = "step" /\ emitted[3].via = "data"

\* C9: the k-th intermediate-step record enqueued in a stream carries index
\* k - 1, whatever stands between the records: payloads that do not parse
\* and tagged lines forwarded verbatim take no index.
C9_IndexesAreZeroToN ==
    Buffered =>
        \A i \in ChunksVia("step") :
            emitted[i].rec[1].index = Cardinality({j \in ChunksVia("step") : j < i})

IsMalformedFrame(line) ==
    \/ /\ StartsWith(line, DataPrefix)
       /\ ~IsTerminatorLine(line)
       /\ ~JSONParse(Drop(line, Len(DataPrefix))).ok
    \/ /\ StartsWith(line, IntermediatePrefix)
       /\ ~JSONParse(Drop(line, Len(IntermediatePrefix))).ok

\* C9 witness: two records enqueued with a malformed intermediate_data line
\* dispatched between them.
C9_Witness ==
    /\ kind = "generate"
    /\ Cardinality(ChunksVia("step")) = 2
    /\ Len(dispatched) = 3
    /\ StartsWith(dispatched[2], IntermediatePrefix) /\ IsMalformedFrame(dispatched[2])

\* C10: no chunk is enqueued from a `data: ` or `intermediate_data: ` line
\* whose payload is not valid JSON, such a line leaves the sequence counter
\* and the stream as they are, and the lines behind it are processed: the
\* body valid x, malformed, valid y gives "x" and "y".
C10_MalformedFrameDropped ==
    Buffered =>
        /\ \A i \in 1..Len(emitted) :
               emitted[i].via # "fallback" =>
                   ~IsMalformedFrame(LineFrom(body, emitted[i].src))
        /\ counter = Cardinality(ChunksVia("step"))
        /\ ( /\ kind = "generate" /\ exitPath = "end"
             /\ body = DataLine(Object1("value", Quoted("x"))) \o BadDataLine
                           \o DataLine(Object1("value", Quoted("y"))) )
           => BytesOf(emitted) = << <<"x">>, <<"y">> >>

\* equality of two JSON values
SameValue(a, b) == a.t = b.t /\ a.v = b.v

\* the payload text of the intermediate_data line a chunk comes from
PayloadOf(chunk) == Drop(LineFrom(body, chunk.src), Len(IntermediatePrefix))

\* a field of the record is the payload's field of that name, or its default
\* when the payload has none
DefaultIfMissing(value, source, default) ==
    IF source.t = "undefined" THEN SameValue(value, JStr(default)) ELSE TRUE

FieldOrDefault(value, source, default) ==
    SameValue(value, IF Truthy(source) THEN source ELSE JStr(default))

\* C14 as stated: every record has type system_intermediate and, for each
\* field the payload does not carry, the documented default, content.name
\* and content.payload being read from under the payload's content member:
\* {"id":"1","name":"Searching"} gives content.name "Step" and id "1".
C14_RecordShape ==
    Buffered =>
        \A i \in ChunksVia("step") :
            /\ SameValue(emitted[i].rec[1].type, JStr(<<"system_intermediate">>))
            /\ DefaultIfMissing(emitted[i].rec[1].status,
                   Get(JSONParse(PayloadOf(emitted[i])).val, "status"), <<"in_progress">>)
            /\ DefaultIfMissing(emitted[i].rec[1].parent_id,
                   Get(JSONParse(PayloadOf(emitted[i])).val, "parent_id"), <<"default">>)
            /\ DefaultIfMissing(emitted[i].rec[1].intermediate_parent_id,
                   Get(JSONParse(PayloadOf(emitted[i])).val, "intermediate_parent_id"),
                   <<"default">>)
            /\ DefaultIfMissing(emitted[i].rec[1].time_stamp,
                   Get(JSONParse(PayloadOf(emitted[i])).val, "time_stamp"), <<"default">>)
            /\ DefaultIfMissing(emitted[i].rec[1].content.name,
                   Get(Get(JSONParse(PayloadOf(emitted[i])).val, "content"), "name"),
                   <<"Step">>)
            /\ DefaultIfMissing(emitted[i].rec[1].content.payload,
                   Get(Get(JSONParse(PayloadOf(emitted[i])).val, "content"), "payload"),
                   <<"No details">>)
            /\ PayloadOf(emitted[i]) = Object2("id", Quoted("1"), "name", Quoted("Searching"))
                   => /\ SameValue(emitted[i].rec[1].id, JStr(<<"1">>))
                      /\ SameValue(emitted[i].rec[1].content.name, JStr(<<"Step">>))

\* C14 as amended: every record has type system_intermediate, and each other
\* field but index is the payload's top-level field when that is truthy and
\* its default otherwise, content.name and content.payload being the
\* payload's top-level name and payload: {"id":"1","name":"Searching"} gives
\* content.name "Searching" and id "1".
C14_RecordFromTopLevel ==
    Buffered =>
        \A i \in ChunksVia("step") :
            /\ JSONParse(PayloadOf(emitted[i])).ok
            /\ SameValue(emitted[i].rec[1].type, JStr(<<"system_intermediate">>))
            /\ FieldOrDefault(emitted[i].rec[1].id,
                   Get(JSONParse(PayloadOf(emitted[i])).val, "id"), <<>>)
            /\ FieldOrDefault(emitted[i].rec[1].error,
                   Get(JSONParse(PayloadOf(emitted[i])).val, "error"), <<>>)
            /\ FieldOrDefault(emitted[i].rec[1].status,
                   Get(JSONParse(PayloadOf(emitted[i])).val, "status"), <<"in_progress">>)
            /\ FieldOrDefault(emitted[i].rec[1].parent_id,
                   Get(JSONParse(PayloadOf(emitted[i])).val, "parent_id"), <<"default">>)
            /\ FieldOrDefault(emitted[i].rec[1].intermediate_parent_id,
                   Get(JSONParse(PayloadOf(emitted[i])).val, "intermediate_parent_id"),
                   <<"default">>)
            /\ FieldOrDefault(emitted[i].rec[1].time_stamp,
                   Get(JSONParse(PayloadOf(emitted[i])).val, "time_stamp"), <<"default">>)
            /\ FieldOrDefault(emitted[i].rec[1].content.name,
                   Get(JSONParse(PayloadOf(emitted[i])).val, "name"), <<"Step">>)
            /\ FieldOrDefault(emitted[i].rec[1].content.payload,
                   Get(JSONParse(PayloadOf(emitted[i])).val, "payload"), <<"No details">>)
            /\ PayloadOf(emitted[i]) = Object2("id", Quoted("1"), "name", Quoted("Searching"))
                   => /\ SameValue(emitted[i].rec[1].id, JStr(<<"1">>))
                      /\ SameValue(emitted[i].rec[1].content.name, JStr(<<"Searching">>))

\* C14 witness: a record has been encoded from the payload with a top-level
\* name and no status.
C14_Witness ==
    /\ Buffered
    /\ \E i \in ChunksVia("step") :
           /\ PayloadOf(emitted[i]) =
                  Object2("id", Quoted("1"), "name", Quoted("Searching"))
           /\ emitted[i].rec[1].content.name.v = <<"Searching">>
           /\ emitted[i].rec[1].status.v = <<"in_progress">>

\* C21: a run of processGenerateStream ended by a backend read that threw
\* has had close invoked once, and accepted, has released the reader, and
\* has enqueued nothing after the failed read: no fallback chunk, which
\* belongs to the natural end of the body.
C21_ReadErrorClosesAtOnce ==
    (kind = "generate" /\ exitPath = "error") =>
        /\ pc = "done"
        /\ closeCalls = 1 /\ closeRequested
        /\ releaseCalls = 1
        /\ ChunksVia("fallback") = {}

\* C22: when a run is over (end of body, terminator, read error, or no body
\* to read from), close has been accepted by the output stream and the
\* stream is not errored, so that it is closed once the client has read
\* what is queued.
C22_RunOverMeansClosing ==
    pc = "done" => closeRequested /\ streamState # "errored"

\* C23: in processGenerateStream and processChatStream close is invoked at
\* most once, exactly once when the run is over, and no close or enqueue
\* is ever invoked on a controller that no longer accepts it.
C23_CloseOnce ==
    Buffered =>
        /\ closeCalls <= 1
        /\ rejectedCalls = 0
        /\ pc = "done" => closeCalls = 1

\* C24: no backend read is pending while a chunk enqueued earlier has not
\* been read by the client.
C24_NoReadWhileUnconsumed ==
    (Buffered /\ pc = "reading") => queue = <<>>

(***************************************************************************)
(* The single-shot extractors and the DataEvent branch, called once on one *)
(* backend text                                                            *)
(***************************************************************************)
Documents ==
    { Object2("value", Quoted("a"), "output", Quoted("b")),
      Object2("output", Quoted("b"), "value", Quoted("a")),
      Object2("output", Quoted("b"), "answer", Quoted("c")),
      Object2("answer", Quoted("c"), "value", Quoted("a")),
      Object2("value", Quoted(""), "answer", Quoted("c")),
      Object2("value", <<"0">>, "output", Quoted("b")),
      Object2("value", <<"5">>, "answer", Quoted("hello")),
      Object2("value", <<"null">>, "output", <<"[", "5", "]">>),
      Object1("value", Quoted("a")),
      Object1("answer", Quoted("x")),
      Object1("reply", Quoted("r")),
      Object2("reply", Quoted("r"), "answer", Quoted("x")),
      Object2("reply", Quoted(""), "answer", Quoted("x")),
      Object1("reply", <<"5">>),
      Object1("detail", Quoted("Not Found")),
      Choices("message", "d"),
      Choices("delta", "d"),
      <<"{">> \o Member("answer", Quoted("c")) \o <<",">>
          \o Drop(Choices("message", "d"), 1),
      Object1("choices", Quoted("x")),
      Object1("choices", <<"[", "]">>),
      <<"{", "}">>,
      <<"null">>,
      <<"0">>,
      Quoted("hi"),
      <<"[", "5", "]">>,
      <<"{", "not", SP, "valid", SP, "json">>,
      <<>> }

Extractors == {"processGenerate", "processChat", "dataEvent"}

\* Every variable of the stream normalizers at rest.
NoStream ==
    /\ kind = "generate" /\ body = <<>> /\ hasReader = FALSE /\ enableSteps = TRUE
    /\ pc = "idle" /\ pos = 0 /\ buffer = <<>> /\ streamContent = <<>>
    /\ finalAnswerSent = FALSE /\ counter = 0
    /\ queue = <<>> /\ closeRequested = FALSE /\ streamState = "readable"
    /\ startPromise = "pending" /\ exitPath = "none"
    /\ releaseCalls = 0 /\ closeCalls = 0 /\ rejectedCalls = 0
    /\ emitted = <<>> /\ extracted = <<>> /\ dispatched = <<>> /\ delivered = <<>>

InitExtract ==
    /\ NoStream
    /\ extraction \in [ fn : Extractors, data : Documents, done : {FALSE},
                        responded : {FALSE}, text : {<<>>} ]
    /\ http = <<>>
    /\ cancelledAt = <<>>
    /\ peer = <<>>

Returned(responded, text) ==
    /\ extraction' = [extraction EXCEPT !.done = TRUE, !.responded = responded,
                                        !.text = text]
    /\ UNCHANGED <<input, local, stream, history, delivered, http, cancelledAt, peer>>

\* processGenerate(response), chat.ts:40-55
CallProcessGenerate ==
    /\ extraction.fn = "processGenerate" /\ ~extraction.done
    /\ Returned(TRUE, ProcessGenerate(extraction.data, JSONParse(extraction.data)))

\* processChat(response), chat.ts:57-74
CallProcessChat ==
    /\ extraction.fn = "processChat" /\ ~extraction.done
    /\ Returned(TRUE, ProcessChat(extraction.data, JSONParse(extraction.data)))

EmittedText(f) == IF f.emitted = <<>> THEN <<>> ELSE f.emitted[1].bytes

\* One `data: ` line in a fresh processGenerateStream, chat.ts:104-115
OneDataEvent(r) == Returned(r.f.emitted # <<>>, EmittedText(r.f))

CallDataEvent ==
    /\ extraction.fn = "dataEvent" /\ ~extraction.done
    /\ OneDataEvent(GenerateLine(EmptyFrame, DataPrefix \o extraction.data, 0, TRUE))

NextExtract == CallProcessGenerate \/ CallProcessChat \/ CallDataEvent

SpecExtract == InitExtract /\ [][NextExtract]_vars

\* the five preferred fields of a parsed payload, in the documented order
PreferredCandidates(parsed) ==
    << Get(parsed, "value"), Get(parsed, "output"), Get(parsed, "answer"),
       ChoiceContent(parsed, "message"), ChoiceContent(parsed, "delta") >>

TruthyOnes(candidates) == {i \in 1..Len(candidates) : Truthy(candidates[i])}

\* the candidates an extractor looks at: the delta field only in the stream
CandidatesOf(fn, parsed) ==
    Take(PreferredCandidates(parsed), IF fn = "dataEvent" THEN 5 ELSE 4)

FirstTruthy(candidates) == candidates[FirstOf(TruthyOnes(candidates))]

\* C11: for a payload that parses, processGenerate and the DataEvent branch
\* of processGenerateStream take the first non-empty (truthy) candidate in the
\* order value, output, answer, choices[0].message.content and, in the
\* stream only, choices[0].delta.content: a string is the text returned,
\* anything else is stringified by processGenerate and not sent by the
\* stream, and a payload without such a candidate makes the stream send
\* nothing.  {value:"a", output:"b"} gives "a", {output:"b", answer:"c"}
\* gives "b", {choices:[{message:{content:"d"}}]} gives "d".
C11_PreferenceOrder ==
    ( /\ extraction.done
      /\ extraction.fn \in {"processGenerate", "dataEvent"}
      /\ JSONParse(extraction.data).ok ) =>
        /\ IF TruthyOnes(CandidatesOf(extraction.fn, JSONParse(extraction.data).val)) # {}
           THEN IF IsString(FirstTruthy(CandidatesOf(extraction.fn,
                                            JSONParse(extraction.data).val)))
                THEN /\ extraction.responded
                     /\ extraction.text =
                            FirstTruthy(CandidatesOf(extraction.fn,
                                            JSONParse(extraction.data).val)).v
                ELSE IF extraction.fn = "dataEvent" THEN ~extraction.responded
                ELSE extraction.text =
                         JSONStringify(FirstTruthy(CandidatesOf(extraction.fn,
                                           JSONParse(extraction.data).val)))
           ELSE extraction.fn = "dataEvent" => ~extraction.responded
        /\ extraction.data = Object2("value", Quoted("a"), "output", Quoted("b"))
               => extraction.text = <<"a">>
        /\ extraction.data = Object2("output", Quoted("b"), "answer", Quoted("c"))
               => extraction.text = <<"b">>
        /\ extraction.data = Choices("message", "d") => extraction.text = <<"d">>

\* C11 witness: the DataEvent branch has returned "a" for a payload that
\* names value behind another preferred field.
C11_Witness ==
    /\ extraction.done
    /\ extraction.fn = "dataEvent"
    /\ extraction.data \in { Object2("output", Quoted("b"), "value", Quoted("a")),
                             Object2("answer", Quoted("c"), "value", Quoted("a")) }
    /\ extraction.text = <<"a">>

\* C12: processChat answers with the first non-empty candidate in the order
\* value, output, answer, choices[0].message.content, as processGenerate
\* does, and with the whole parsed object, stringified, when a parsed object
\* has none of them; {value:"a", output:"b"} gives "a".
C12_ChatSameOrder ==
    ( /\ extraction.done
      /\ extraction.fn = "processChat"
      /\ JSONParse(extraction.data).ok ) =>
        /\ IF TruthyOnes(CandidatesOf("processChat", JSONParse(extraction.data).val)) # {}
           THEN extraction.text =
                    ResponseText(FirstTruthy(CandidatesOf("processChat",
                                     JSONParse(extraction.data).val)))
           ELSE JSONParse(extraction.data).val.t = "obj" =>
                    extraction.text = JSONStringify(JSONParse(extraction.data).val)
        /\ extraction.data = Object2("value", Quoted("a"), "output", Quoted("b"))
               => extraction.text = <<"a">>

(***************************************************************************)
(* handler, chat.ts:237-428                                                *)
(*                                                                         *)
(* http holds one request: what the client sent (url, last), what the      *)
(* backend will answer (backendOk; body and hasReader are its body), the   *)
(* position of handler (pc), the payload built so far (message), every     *)
(* fetch issued (calls) and the response returned (status, text).          *)
(***************************************************************************)
\* chatCompletionURL as sent: absent, a streaming endpoint, a single-shot one
StreamURL == <<"http://127.0.0.1:8001/", "chat", "/", "stream">>
ChatURL == <<"http://127.0.0.1:8001/", "chat">>
RequestURLs == {<<>>, StreamURL, ChatURL}

\* chat.ts:242 and 360: the default of the destructuring and the || fallback
BackendURL(url) == IF url = <<>> THEN StreamURL ELSE url

\* chat.ts:376: backendURL.includes('stream')
IsStreamURL(url) == Includes(url, "stream")

\* an attachment: its type, and whether it has content
Attachment(type, hasContent) == [type |-> type, hasContent |-> hasContent]

AttachmentLists ==
    { <<>>,
      <<Attachment("file", TRUE)>>,
      <<Attachment("image", TRUE)>>,
      <<Attachment("image", FALSE)>>,
      <<Attachment("file", TRUE), Attachment("image", TRUE)>> }

\* messages.at(-1): present is FALSE when messages is empty or absent;
\* hasAttachments is FALSE when the message has no attachments member.
LastMessages ==
    [ present : {TRUE},
      content : {Undefined, JStr(<<>>), JStr(<<"hello">>)},
      hasAttachments : {TRUE},
      attachments : AttachmentLists ]
    \cup [ present : {TRUE},
           content : {Undefined, JStr(<<>>), JStr(<<"hello">>)},
           hasAttachments : {FALSE},
           attachments : {<<>>} ]
    \cup [ present : {FALSE}, content : {Undefined}, hasAttachments : {FALSE},
           attachments : {<<>>} ]

\* chat.ts:249: lastMessage?.content
UserMessage(last) == IF last.present THEN last.content ELSE Undefined

\* chat.ts:251: !userMessage && !lastMessage?.attachments?.length
RejectsNever(last) == FALSE
Rejects(last) == ~Truthy(UserMessage(last)) /\ last.attachments = <<>>

\* chat.ts:256 and 261-262: the first image attachment has content
ImageWithContent(last) ==
    /\ \E i \in 1..Len(last.attachments) : last.attachments[i].type = "image"
    /\ last.attachments[CHOOSE i \in 1..Len(last.attachments) :
           /\ last.attachments[i].type = "image"
           /\ \A j \in 1..(i - 1) : last.attachments[j].type # "image"].hasContent

\* chat.ts:321-348: the text of a finished color analysis
ColorAnalysisText(userMessage) ==
    JStr(<<"[color analysis]", NL>>
         \o (IF Truthy(userMessage) THEN <<"[user question]", SP>> \o ToText(userMessage)
             ELSE <<>>))

\* chat.ts:354: `${userMessage}\n\n[...]`
AnalysisFailedText(userMessage) ==
    JStr(ToText(userMessage) \o <<NL, NL, "[color analysis failed]">>)

\* chat.ts:367: JSON.stringify(payload) leaves out a member that is undefined
PayloadText(message) ==
    IF message.t = "undefined" THEN <<"{", "}">>
    ELSE <<"{", QT, "message", QT, ":">> \o JSONStringify(message) \o <<"}">>

Call(to, text) == [to |-> to, body |-> text]

\* chat.ts:252, 372 and 426
NoMessageText == <<"No message or attachment provided">>
BackendErrorTextBare(error) == error
BackendErrorText(error) == <<"Backend Error:", SP>> \o error
ServerErrorText == <<"Server Error:", SP, "[error.message]">>

\* what the chat backend may answer with
HandlerBodies ==
    { DataLine(Object1("value", Quoted("Hi"))) \o SearchingStep \o DoneLine,
      DataLine(Choices("delta", "x")) \o DataLine(Choices("delta", "y")) \o DoneLine,
      Object1("reply", Quoted("r")),
      Object2("reply", Quoted(""), "answer", Quoted("x")),
      Object1("answer", Quoted("x")),
      Object1("reply", <<"5">>),
      Object1("detail", Quoted("Not Found")),
      <<"null">>,
      <<"Internal", SP, "Server", SP, "Error">> }

InitHandler ==
    /\ kind = "inline"
    /\ body \in HandlerBodies
    /\ hasReader \in BOOLEAN
    /\ enableSteps \in BOOLEAN
    /\ pc = "idle" /\ pos = 0 /\ buffer = <<>> /\ streamContent = <<>>
    /\ finalAnswerSent = FALSE /\ counter = 0
    /\ queue = <<>> /\ closeRequested = FALSE /\ streamState = "readable"
    /\ startPromise = "pending" /\ exitPath = "none"
    /\ releaseCalls = 0 /\ closeCalls = 0 /\ rejectedCalls = 0
    /\ emitted = <<>> /\ extracted = <<>> /\ dispatched = <<>> /\ delivered = <<>>
    /\ http \in [ pc : {"received"}, wellFormed : BOOLEAN, url : RequestURLs,
                  last : LastMessages, backendOk : BOOLEAN,
                  message : {Undefined}, calls : {<<>>}, thrown : {FALSE},
                  status : {0}, text : {<<>>} ]
    /\ (~http.wellFormed =>
            http.url = <<>> /\ ~http.last.present /\ http.backendOk /\ hasReader
            /\ enableSteps /\ body = <<"null">>)
    /\ extraction = <<>>
    /\ cancelledAt = <<>>
    /\ peer = <<>>

streaming == <<local, stream, history, delivered>>

\* return new Response(text, { status })
Respond(status, text) ==
    http' = [http EXCEPT !.pc = "responded", !.status = status, !.text = text]

\* catch (error) { return new Response(`Server Error: ...`, { status: 500 }) }
ServerError(calls) ==
    http' = [http EXCEPT !.pc = "responded", !.status = 500, !.thrown = TRUE,
                         !.text = ServerErrorText, !.calls = calls]

\* chat.ts:239-262: the request is parsed and validated, and the payload
\* starts as { message: userMessage }.
ReceiveRequest ==
    /\ http.pc = "received"
    /\ IF ~http.wellFormed THEN ServerError(http.calls)
       ELSE IF Rejects(http.last) THEN Respond(400, NoMessageText)
       ELSE http' = [http EXCEPT
                        !.message = UserMessage(http.last),
                        !.pc = IF ImageWithContent(http.last) THEN "analyze"
                               ELSE "fetch"]
    /\ UNCHANGED <<input, streaming, extraction, cancelledAt, peer>>

Outcomes == {"ok", "notOk", "throws"}

\* chat.ts:265-275 and 352-355: the color-analysis fetch.  An answer that
\* is OK but is not the document the code reads throws like the fetch.
AnalyzeImage(outcome) ==
    /\ http.pc = "analyze"
    /\ http' = [http EXCEPT
                   !.calls = Append(@, Call("analyze", <<>>)),
                   !.message = IF outcome = "throws"
                               THEN AnalysisFailedText(UserMessage(http.last)) ELSE @,
                   !.pc = IF outcome = "ok" THEN "palette" ELSE "fetch"]
    /\ UNCHANGED <<input, streaming, extraction, cancelledAt, peer>>

\* chat.ts:278-291: the palette fetch; a throw ends in the catch of line 352.
SuggestPalette(outcome) ==
    /\ http.pc = "palette"
    /\ http' = [http EXCEPT
                   !.calls = Append(@, Call("palette", <<>>)),
                   !.message = IF outcome = "throws"
                               THEN AnalysisFailedText(UserMessage(http.last)) ELSE @,
                   !.pc = IF outcome = "throws" THEN "fetch" ELSE "annotate"]
    /\ UNCHANGED <<input, streaming, extraction, cancelledAt, peer>>

\* chat.ts:295-350: the annotate fetch has its own catch; the text is then
\* composed, which throws on color data of another shape (composes FALSE).
AnnotateImage(outcome, composes) ==
    /\ http.pc = "annotate"
    /\ http' = [http EXCEPT
                   !.calls = Append(@, Call("annotate", <<>>)),
                   !.message = IF composes
                               THEN ColorAnalysisText(UserMessage(http.last))
                               ELSE AnalysisFailedText(UserMessage(http.last)),
                   !.pc = "fetch"]
    /\ UNCHANGED <<input, streaming, extraction, cancelledAt, peer>>

\* chat.ts:360-368: the POST to the chat backend
ChatFetch(reached) ==
    /\ http.pc = "fetch"
    /\ IF reached
       THEN http' = [http EXCEPT
                        !.calls = Append(@, Call("chat", PayloadText(http.message))),
                        !.pc = "answered"]
       ELSE ServerError(Append(http.calls, Call("chat", PayloadText(http.message))))
    /\ UNCHANGED <<input, streaming, extraction, cancelledAt, peer>>

\* chat.ts:370-373: a backend status that is not OK
BackendError(readable) ==
    /\ http.pc = "answered"
    /\ ~http.backendOk
    /\ IF readable THEN Respond(500, BackendErrorText(body))
       ELSE ServerError(http.calls)
    /\ UNCHANGED <<input, streaming, extraction, cancelledAt, peer>>

\* chat.ts:376-418: the output stream is made, start() is called, and the
\* stream is returned as the response.
OpenStream ==
    /\ http.pc = "answered"
    /\ http.backendOk
    /\ IsStreamURL(BackendURL(http.url))
    /\ pc' = "start"
    /\ Respond(200, <<>>)
    /\ UNCHANGED <<input, pos, buffer, streamContent, finalAnswerSent, counter,
                   stream, history, delivered, extraction, cancelledAt, peer>>

\* chat.ts:422: data.reply || JSON.stringify(data); data.reply throws on null
SingleShotText(data) ==
    IF Truthy(Get(data, "reply")) THEN ToText(Get(data, "reply"))
    ELSE JSONStringify(data)

SingleShotAnswer(p) ==
    IF p.ok /\ p.val.t # "null" THEN Respond(200, SingleShotText(p.val))
    ELSE ServerError(http.calls)

\* chat.ts:419-423: response.json() and the response made of it
SingleShot ==
    /\ http.pc = "answered"
    /\ http.backendOk
    /\ ~IsStreamURL(BackendURL(http.url))
    /\ SingleShotAnswer(JSONParse(body))
    /\ UNCHANGED <<input, streaming, extraction, cancelledAt, peer>>

NextHandler ==
    \/ ReceiveRequest
    \/ \E outcome \in Outcomes : AnalyzeImage(outcome)
    \/ \E outcome \in Outcomes : SuggestPalette(outcome)
    \/ \E outcome \in Outcomes, composes \in BOOLEAN : AnnotateImage(outcome, composes)
    \/ \E reached \in BOOLEAN : ChatFetch(reached)
    \/ \E readable \in BOOLEAN : BackendError(readable)
    \/ OpenStream
    \/ SingleShot
    \/ Start
    \/ \E n \in 1..MaxChunk : ReadChunk(n)
    \/ ReadDone
    \/ ReadThrows
    \/ ClientRead

SpecHandler == InitHandler /\ [][NextHandler]_vars

\* the request names a streaming endpoint, or none
Streaming == IsStreamURL(BackendURL(http.url))

\* handler has returned a response that no exception and no validation made
Answered == http.pc = "responded" /\ ~http.thrown /\ http.status # 400

\* C13: a request with messages [{content:"hello"}], intermediate steps
\* enabled and a streaming URL, answered by the backend with the lines
\* data: {"value":"Hi"}, intermediate_data: {"id":"1","name":"Searching"},
\* data: [DONE]: when the stream has run to its end, the response body is
\* "Hi" and then exactly one marker, of index 0 and id "1", and close has
\* been requested.
C13_Scenario ==
    ( /\ Answered /\ Streaming /\ http.backendOk
      /\ enableSteps /\ hasReader
      /\ http.last.present /\ http.last.content.v = <<"hello">>
      /\ body = DataLine(Object1("value", Quoted("Hi"))) \o SearchingStep \o DoneLine
      /\ pc = "done" /\ exitPath # "error" ) =>
        /\ Len(emitted) = 2
        /\ emitted[1].via = "data" /\ emitted[1].bytes = <<"Hi">>
        /\ emitted[2].via = "step"
        /\ emitted[2].rec[1].index = 0
        /\ emitted[2].rec[1].id.v = <<"1">>
        /\ closeRequested

\* the last message has neither non-empty content nor an attachment
NothingProvided(last) ==
    /\ ~(last.content.t = "str" /\ last.content.v # <<>>)
    /\ Len(last.attachments) = 0

\* C16: for a request whose last message has neither non-empty content nor
\* an attachment (also when there is no last message), handler issues no
\* fetch at all and creates no stream, and the response it returns is 400
\* with the plain text of line 252.
C16_NoInputRejected ==
    (http.wellFormed /\ NothingProvided(http.last)) =>
        /\ http.calls = <<>>
        /\ pc = "idle"
        /\ http.pc \in {"received", "responded"}
        /\ http.pc = "responded" =>
               http.status = 400 /\ http.text = NoMessageText

\* C16 witness: a request with empty content and an empty attachments list
\* has been answered with 400.
C16_Witness ==
    /\ http.pc = "responded" /\ http.status = 400
    /\ http.last.present /\ http.last.hasAttachments
    /\ http.last.content.t = "str"

\* C17: when the chat backend has answered with a status that is not OK, no
\* output stream is ever created and no reader acquired, and the response
\* handler returns once it has read the backend's text is 500 with
\* `Backend Error: ` and that text.
C17_BackendErrorBeforeStreaming ==
    (http.wellFormed /\ ~http.backendOk) =>
        /\ pc = "idle"
        /\ releaseCalls = 0 /\ emitted = <<>> /\ pos = 0
        /\ Answered =>
               /\ http.status = 500
               /\ http.text = <<"Backend Error:", SP>> \o body

\* C17 witness: a streaming URL and a backend body, answered with 500.
C17_Witness ==
    /\ Answered /\ ~http.backendOk /\ Streaming /\ hasReader
    /\ http.status = 500
    /\ body # <<>>

\* C18: the body of every POST to the chat backend is a JSON document with a
\* message member that is a string.
C18_MessageIsString ==
    \A i \in 1..Len(http.calls) :
        http.calls[i].to = "chat" =>
            /\ JSONParse(http.calls[i].body).ok
            /\ Get(JSONParse(http.calls[i].body).val, "message").t = "str"

\* C19: a single-shot answer is the reply member of the backend's document
\* when there is one, otherwise one of the preferred fields of the document
\* when it has any ({"answer":"x"} gives "x"), and the document stringified
\* only when it has none.
C19_SingleShotUsesExtractor ==
    (Answered /\ http.status = 200 /\ ~Streaming) =>
        /\ IF Truthy(Get(JSONParse(body).val, "reply"))
           THEN http.text = ToText(Get(JSONParse(body).val, "reply"))
           ELSE IF TruthyOnes(CandidatesOf("processChat", JSONParse(body).val)) # {}
           THEN \E i \in TruthyOnes(CandidatesOf("processChat", JSONParse(body).val)) :
                    http.text =
                        ResponseText(CandidatesOf("processChat", JSONParse(body).val)[i])
           ELSE http.text = JSONStringify(JSONParse(body).val)
        /\ body = Object1("answer", Quoted("x")) => http.text = <<"x">>

(***************************************************************************)
(* A client that cancels the output stream                                 *)
(***************************************************************************)
\* The client cancels the stream or disconnects.  None of the three
\* underlying sources has a cancel() method (chat.ts:83-84, 173-174 and
\* 377-378), so the stream is closed and its queue emptied, and start() is
\* told nothing: its enqueue and close calls throw from now on.
ClientCancel ==
    /\ pc \in {"start", "reading", "done"}
    /\ streamState = "readable"
    /\ cancelledAt = <<>>
    /\ cancelledAt' = <<[pos |-> pos, pc |-> pc]>>
    /\ streamState' = "closed"
    /\ queue' = <<>>
    /\ UNCHANGED <<input, local, closeRequested, startPromise, history, delivered,
                   extraction, http, peer>>

NextCancel ==
    \/ Start
    \/ \E n \in 1..MaxChunk : ReadChunk(n)
    \/ ReadDone
    \/ ReadThrows
    \/ ClientRead
    \/ ClientCancel

\* the backend bodies of the runs with a cancelling client: event lines with
\* a terminator, a tagged line, delta lines, and one JSON document
CancelBodies ==
    { DataLine(Object1("value", Quoted("Hi"))) \o SearchingStep \o DoneLine,
      StepLine(<<"{", "}">>) \o TaggedLine \o SearchingStep,
      DataLine(Choices("delta", "x")) \o <<NL>> \o DataLine(Choices("delta", "y"))
          \o DoneLine,
      Object1("answer", Quoted("hello")) }

InitCancel == Init /\ body \in CancelBodies

SpecCancel == InitCancel /\ [][NextCancel]_vars

\* the client cancelled while a backend read was pending
CancelledInLoop == cancelledAt # <<>> /\ cancelledAt[1].pc = "reading"

\* C15: after the client has cancelled the output stream during the read
\* loop, no backend read is issued any more: once the read that was pending
\* has delivered, the run is over; and when the run is over the reader has
\* been released.
C15_CancelStopsReading ==
    CancelledInLoop =>
        /\ pos > cancelledAt[1].pos => pc = "done"
        /\ pc = "done" => releaseCalls = 1

(***************************************************************************)
(* Two invocations side by side.  The variables of the module are the      *)
(* first; peer is the second, a call of processGenerateStream or           *)
(* processChatStream on another backend response, with its own reader,     *)
(* controller and locals (chat.ts:77-81 and 169-171).                      *)
(***************************************************************************)
TwoBodies ==
    { StepLine(<<"{", "}">>) \o StepLine(<<"{", "}">>) \o DoneLine,
      DataLine(Object1("value", Quoted("x"))) \o StepLine(<<"{", "}">>),
      StepLine(<<"{", "}">>) \o BadStepLine \o StepLine(Object1("id", Quoted("1"))) }

InitTwo ==
    /\ kind \in {"generate", "chat"}
    /\ body \in TwoBodies
    /\ hasReader = TRUE
    /\ enableSteps = TRUE
    /\ pc = "start" /\ pos = 0 /\ buffer = <<>> /\ streamContent = <<>>
    /\ finalAnswerSent = FALSE /\ counter = 0
    /\ queue = <<>> /\ closeRequested = FALSE /\ streamState = "readable"
    /\ startPromise = "pending" /\ exitPath = "none"
    /\ releaseCalls = 0 /\ closeCalls = 0 /\ rejectedCalls = 0
    /\ emitted = <<>> /\ extracted = <<>> /\ dispatched = <<>> /\ delivered = <<>>
    /\ extraction = <<>>
    /\ http = <<>>
    /\ cancelledAt = <<>>
    /\ peer \in [ kind : {"generate", "chat"}, body : TwoBodies, enableSteps : {TRUE},
                  pc : {"start"}, pos : {0}, buffer : {<<>>}, streamContent : {<<>>},
                  finalAnswerSent : {FALSE}, f : {EmptyFrame},
                  releaseCalls : {0}, exitPath : {"none"} ]

\* let counter = 0 (chat.ts:81 and 171) stands inside the function: each
\* invocation reads and writes a counter of its own, not the other one's.
OtherCounter(own, other) == other
OwnCounter(own, other) == own

\* what the second invocation's pass over the lines of a chunk starts from
PeerFrame == [peer.f EXCEPT !.counter = OwnCounter(peer.f.counter, counter)]

PeerFinished(fin, exit, n, leftover, content) ==
    peer' = [peer EXCEPT !.pc = "done", !.pos = @ + n, !.buffer = leftover,
                         !.streamContent = content,
                         !.finalAnswerSent = fin.sent, !.f = fin.f,
                         !.releaseCalls = @ + fin.released, !.exitPath = exit]

PeerAfterLines(r, n, leftover, content) ==
    IF r.ctl = "next"
    THEN peer' = [peer EXCEPT !.pos = @ + n, !.buffer = leftover,
                              !.streamContent = content, !.f = r.f]
    ELSE PeerFinished(Finally(peer.kind, r.f, content, peer.finalAnswerSent,
                              r.ctl = "throw", TRUE),
                      IF r.ctl = "throw" THEN "thrown" ELSE "terminator",
                      n, leftover, content)

PeerReceived(n, segments, content) ==
    PeerAfterLines(ForEachLine(peer.kind, PeerFrame, CompleteLines(segments), 1,
                               peer.pos - Len(peer.buffer), peer.enableSteps),
                   n, Leftover(segments), content)

\* new ReadableStream({ start }) of the second invocation, up to its first read
PeerStart ==
    /\ peer.pc = "start"
    /\ peer' = [peer EXCEPT !.pc = "reading"]
    /\ UNCHANGED <<input, streaming, extraction, http, cancelledAt>>

\* the second invocation's pending read resolves with n lexemes
PeerReadChunk(n) ==
    /\ peer.pc = "reading"
    /\ n \in 1..Min(MaxChunk, Len(peer.body) - peer.pos)
    /\ PeerReceived(n,
                    Split(peer.buffer \o SubSeq(peer.body, peer.pos + 1, peer.pos + n), NL),
                    IF peer.kind = "generate"
                    THEN Accumulate(peer.streamContent,
                                    SubSeq(peer.body, peer.pos + 1, peer.pos + n))
                    ELSE peer.streamContent)
    /\ UNCHANGED <<input, streaming, extraction, http, cancelledAt>>

\* the second invocation's pending read resolves with done
PeerReadDone ==
    /\ peer.pc = "reading"
    /\ peer.pos = Len(peer.body)
    /\ PeerFinished(Finally(peer.kind, PeerFrame, peer.streamContent,
                            peer.finalAnswerSent, FALSE, TRUE),
                    "end", 0, peer.buffer, peer.streamContent)
    /\ UNCHANGED <<input, streaming, extraction, http, cancelledAt>>

NextTwo ==
    \/ Start
    \/ \E n \in 1..MaxChunk : ReadChunk(n)
    \/ ReadDone
    \/ PeerStart
    \/ \E n \in 1..MaxChunk : PeerReadChunk(n)
    \/ PeerReadDone

SpecTwo == InitTwo /\ [][NextTwo]_vars

\* what a run alone enqueues when the whole body arrives in one chunk and
\* the body then ends
AloneEnd(k, r, b) == Finally(k, r.f, b, FALSE, r.ctl = "throw", TRUE).f.emitted

Alone(k, b, steps) ==
    AloneEnd(k, ForEachLine(k, EmptyFrame, CompleteLines(Split(b, NL)), 1, 0, steps), b)

\* of each chunk: the branch, the text, the line it comes from and, of a
\* record, the index
OutputOf(chunks) ==
    [i \in 1..Len(chunks) |->
        [ via |-> chunks[i].via, bytes |-> chunks[i].bytes, src |-> chunks[i].src,
          index |-> IF chunks[i].via = "step" THEN chunks[i].rec[1].index ELSE 0 ]]

IsPrefix(s, t) == Len(s) <= Len(t) /\ s = Take(t, Len(s))

\* the first record a run has enqueued, if any, has index 0
StartsAtZero(chunks) ==
    \A i \in 1..Len(chunks) :
        (chunks[i].via = "step" /\ \A j \in 1..(i - 1) : chunks[j].via # "step")
            => chunks[i].rec[1].index = 0

\* C20: of two invocations that run interleaved, each has, in every state,
\* enqueued a prefix of what it enqueues when it runs alone on its body, and
\* all of it once it is over; the records of each start at index 0; and
\* each one's counter is the number of records it has enqueued itself.
C20_Isolated ==
    /\ IsPrefix(OutputOf(emitted), OutputOf(Alone(kind, body, enableSteps)))
    /\ IsPrefix(OutputOf(peer.f.emitted),
                OutputOf(Alone(peer.kind, peer.body, peer.enableSteps)))
    /\ pc = "done" => Len(emitted) = Len(Alone(kind, body, enableSteps))
    /\ peer.pc = "done" =>
           Len(peer.f.emitted) = Len(Alone(peer.kind, peer.body, peer.enableSteps))
    /\ StartsAtZero(emitted) /\ StartsAtZero(peer.f.emitted)
    /\ counter = Cardinality(ChunksVia("step"))
    /\ peer.f.counter =
           Cardinality({i \in 1..Len(peer.f.emitted) : peer.f.emitted[i].via = "step"})

\* C20 witness: both invocations are in the middle of their bodies, each
\* with a partial line in its buffer, the first with one record enqueued
\* and the second with two.
C20_Witness ==
    /\ pc = "reading" /\ peer.pc = "reading"
    /\ buffer # <<>> /\ peer.buffer # <<>>
    /\ counter = 1 /\ peer.f.counter = 2

(***************************************************************************)
(* Classification of lines, the intermediate-step switch and the fallback  *)
(* in the streams of Spec                                                  *)
(***************************************************************************)
\* the line a chunk was made from
LineOf(chunk) == LineFrom(body, chunk.src)

\* the number of records encoded in front of the i-th chunk
StepsBefore(i) == Cardinality({j \in ChunksVia("step") : j < i})

\* C25: in processGenerateStream a chunk made from a line that begins with
\* `data: ` is answer text, a chunk made from a line that begins with
\* `intermediate_data: ` is the record encoded from what follows the prefix,
\* with the next index, and a line forwarded verbatim begins with neither
\* prefix, whether or not the line holds both tags and passthrough is on.
C25_PrefixBeforeTags ==
    kind = "generate" =>
        \A i \in 1..Len(emitted) :
            emitted[i].via # "fallback" =>
                /\ StartsWith(LineOf(emitted[i]), DataPrefix) => emitted[i].via = "data"
                /\ StartsWith(LineOf(emitted[i]), IntermediatePrefix) =>
                       /\ emitted[i].via = "step"
                       /\ emitted[i].rec =
                              <<IntermediateMessage(JSONParse(PayloadOf(emitted[i])).val,
                                                    StepsBefore(i))>>
                /\ emitted[i].via = "tagged" =>
                       /\ ~StartsWith(LineOf(emitted[i]), DataPrefix)
                       /\ ~StartsWith(LineOf(emitted[i]), IntermediatePrefix)

\* C26: with enableIntermediateSteps false, processGenerateStream and
\* processChatStream enqueue no tagged line and no encoded record.
C26_SwitchOffMeansNoMarkers ==
    (Buffered /\ ~enableSteps) =>
        ChunksVia("step") = {} /\ ChunksVia("tagged") = {}

\* C27: in processGenerateStream the fallback enqueues a chunk only in a
\* stream in which nothing was enqueued before it.
C27_FallbackOnlyWhenNothingEmitted ==
    kind = "generate" =>
        \A i \in ChunksVia("fallback") : i = 1

\* the offsets in s of the newline-terminated lines that begin with `data: `
\* and are not a terminator
DataEventOffsets(s) ==
    {e - Len(LineEndingAt(s, e)) - 1 :
        e \in {j \in Newlines(s) :
                  /\ StartsWith(LineEndingAt(s, j), DataPrefix)
                  /\ ~IsTerminatorLine(LineEndingAt(s, j))}}

\* what follows `data:` in the line at offset off of the body, parsed
ParsedFrame(off) == JSONParse(Drop(LineFrom(body, off), 1))

\* the five preferred fields of a parsed frame, nothing when it did not parse
FrameCandidates(p) == IF p.ok THEN PreferredCandidates(p.val) ELSE <<>>

ChunksFrom(off) == {i \in 1..Len(emitted) : emitted[i].src = off /\ emitted[i].via = "data"}

\* C28: in processGenerateStream each received DataEvent line in front of the
\* terminator has exactly one text chunk when one of value, output, answer,
\* choices[0].message.content, choices[0].delta.content of its payload is a
\* non-empty string, and none otherwise.
C28_OneChunkPerStringFrame ==
    kind = "generate" =>
        \A off \in DataEventOffsets(ReceivedText) :
            (SeenTerminator => off < FirstTerminatorOffset) =>
                Cardinality(ChunksFrom(off)) =
                    IF NonEmptyStrings(FrameCandidates(ParsedFrame(off))) # {}
                    THEN 1 ELSE 0

(***************************************************************************)
(* The Line Buffer at the end of the body and between chunks               *)
(***************************************************************************)
\* the chunk was made from a line whose newline has been received
FromTerminatedLine(chunk) ==
    /\ chunk.src + Len(LineOf(chunk)) + 1 <= pos
    /\ body[chunk.src + Len(LineOf(chunk)) + 1] = NL

\* C29: in processGenerateStream and processChatStream only lines terminated
\* by a newline are dispatched, so what follows the last newline of the body
\* never is, and every chunk that is not the fallback's comes from a
\* terminated line; the fallback enqueues a chunk only when all that was
\* received parses as one JSON document.
C29_UnterminatedLineNotDispatched ==
    Buffered =>
        /\ IsPrefix(dispatched, TerminatedLines(ReceivedText))
        /\ \A i \in 1..Len(emitted) :
               emitted[i].via # "fallback" => FromTerminatedLine(emitted[i])
        /\ ChunksVia("fallback") # {} => JSONParse(ReceivedText).ok

\* C29 witness: the body has ended with a well-formed `data: ` frame that
\* holds a string behind its last newline; the frame is still in the
\* buffer and nothing was dispatched or enqueued.
C29_Witness ==
    /\ Buffered /\ pc = "done" /\ exitPath = "end"
    /\ pos = Len(body)
    /\ buffer # <<>> /\ StartsWith(buffer, DataPrefix)
    /\ NonEmptyStrings(FrameCandidates(JSONParse(Drop(buffer, 1)))) # {}
    /\ dispatched = <<>> /\ emitted = <<>>

NoNewline(s) == \A i \in 1..Len(s) : s[i] # NL

\* C30: in processGenerateStream and processChatStream the buffer holds no
\* newline after any chunk, and no line extracted from it holds one.
C30_NoNewlineInBuffer ==
    Buffered =>
        /\ NoNewline(buffer)
        /\ \A i \in 1..Len(extracted) : NoNewline(extracted[i])

\* C30 witness: a chunk with two newlines has been processed; the lines in
\* front of them were extracted and the text behind them is in the buffer.
C30_Witness ==
    /\ Buffered /\ pc = "reading"
    /\ Cardinality(Newlines(ReceivedText)) >= 2
    /\ Len(extracted) >= 2
    /\ buffer # <<>>

=============================================================================
